---- MODULE Spec2Model ----
(***************************************************************************)
(* The two Ansible modules elkarbackup_client and elkarbackup_job, each    *)
(* one run_module() that reconciles a named resource of an Elkarbackup     *)
(* server through its REST API.  A process is one module invocation at a   *)
(* time; the server is the lists of clients and jobs it holds.  Every      *)
(* network call is one step: the GET lookups, then at most one POST, PUT   *)
(* or DELETE together with the end of the invocation (exit_json,           *)
(* fail_json, or an exception that escapes run_module).                    *)
(***************************************************************************)
EXTENDS Integers, Sequences, FiniteSets, TLC

\* ------------------------------------------------------------- bounds
MaxRemote == 2          \* resources of one kind the server holds at the start
MaxReruns == 1          \* repetitions of a finished invocation, same arguments
MaxTasks == 3           \* tasks of a play that runs several, one after the other

\* The processes that can run a module, and the one that runs the tasks of a
\* play one after the other.
Procs == {"p1", "p2"}
Playbook == "p1"

\* Names are sequences of characters, so that a substring filter is computable.
Names == {<<"a">>, <<"a", "b">>}

\* ------------------------------------------------------------- values
\* JSON numbers and JSON numerals held in a string ("20000"), kept apart.
JInt(n) == [t |-> "int", v |-> n]
JStr(n) == [t |-> "str", v |-> n]

\* Python's int(x) on a JSON number or numeral.
int(x) == [t |-> "int", v |-> x.v]

\* Python's set(list).
set(l) == {l[i] : i \in 1..Len(l)}

\* Python's None for an object (a lookup that found nothing) ...
None == <<>>
Some(x) == <<x>>
\* ... and for a string argument (default=None).
Null == "<None>"

\* ------------------------------------------------------------- arguments
\* module_args of elkarbackup_client with its defaults.
ClientArgs(n, s) ==
    [module |-> "elkarbackup_client", name |-> n, state |-> s,
     description |-> "", is_active |-> TRUE, max_parallel_jobs |-> 1,
     post_scripts |-> <<>>, pre_scripts |-> <<>>, quota |-> -1,
     rsync_long_args |-> "", rsync_short_args |-> "", ssh_args |-> "",
     url |-> ""]

\* module_args of elkarbackup_job with its defaults.
JobArgs(n, cn, s) ==
    [module |-> "elkarbackup_job", name |-> n, client_name |-> cn, state |-> s,
     backup_location |-> 1, description |-> "", exclude |-> Null,
     include |-> Null, is_active |-> TRUE, min_notification_level |-> 0,
     notifications_email |-> Null, notifications_to |-> <<>>, path |-> "",
     policy |-> 1, post_scripts |-> <<>>, pre_scripts |-> <<>>, token |-> "",
     use_local_permissions |-> TRUE]

\* One argument of a client task set by the play.
ClientOverride(m) ==
    {[m EXCEPT !.description = "srv"], [m EXCEPT !.is_active = FALSE],
     [m EXCEPT !.max_parallel_jobs = 2],
     [m EXCEPT !.post_scripts = <<1, 2>>], [m EXCEPT !.post_scripts = <<1, 2, 3>>],
     [m EXCEPT !.pre_scripts = <<1, 2>>], [m EXCEPT !.pre_scripts = <<1, 2, 2>>],
     [m EXCEPT !.pre_scripts = <<1, 2, 3>>], [m EXCEPT !.quota = 20000],
     [m EXCEPT !.rsync_long_args = "--l"], [m EXCEPT !.rsync_short_args = "-s"],
     [m EXCEPT !.ssh_args = "-p"], [m EXCEPT !.url = "host"]}

\* One argument of a job task set by the play.
JobOverride(m) ==
    {[m EXCEPT !.backup_location = 2], [m EXCEPT !.description = "srv"],
     [m EXCEPT !.exclude = ""], [m EXCEPT !.exclude = "x"],
     [m EXCEPT !.include = "x"], [m EXCEPT !.is_active = FALSE],
     [m EXCEPT !.min_notification_level = 1],
     [m EXCEPT !.notifications_email = "x"],
     [m EXCEPT !.notifications_to = <<"admin", "owner">>],
     [m EXCEPT !.notifications_to = <<"admin", "owner", "email">>],
     [m EXCEPT !.path = "/p"], [m EXCEPT !.policy = 2],
     [m EXCEPT !.post_scripts = <<1, 2>>], [m EXCEPT !.post_scripts = <<1, 2, 3>>],
     [m EXCEPT !.pre_scripts = <<1, 2>>], [m EXCEPT !.pre_scripts = <<1, 2, 2>>],
     [m EXCEPT !.pre_scripts = <<1, 2, 3>>], [m EXCEPT !.token = "t"], [m EXCEPT !.use_local_permissions = FALSE]}

Override(m) ==
    IF m.module = "elkarbackup_client" THEN ClientOverride(m) ELSE JobOverride(m)

\* Two arguments set by the play.
Override2(m) ==
    IF m.module = "elkarbackup_client"
    THEN {[m EXCEPT !.description = "srv", !.quota = 20000],
          [m EXCEPT !.post_scripts = <<1, 2>>, !.url = "host"]}
    ELSE {[m EXCEPT !.description = "srv", !.policy = 2],
          [m EXCEPT !.notifications_to = <<"admin", "owner">>, !.path = "/p"]}

\* The argument sets a task can be given: the defaults, or one or two
\* arguments set; state=absent reads the names only.
TaskArgs ==
    LET set_by_play == {ClientArgs(n, "present") : n \in Names}
                       \cup {JobArgs(n, <<"a">>, "present") : n \in Names}
        defaults == {JobArgs(n, <<"a", "b">>, "present") : n \in Names}
        absent == {ClientArgs(n, "absent") : n \in Names}
                  \cup {JobArgs(n, <<"a">>, "absent") : n \in Names}
    IN  set_by_play \cup UNION {Override(m) \cup Override2(m) : m \in set_by_play}
        \cup defaults \cup absent

\* ------------------------------------------------------------- the server
\* A client as GET /api/clients.json returns it.  owner is a field of the
\* API's client that the module has no argument for.
ClientObject(i, n) ==
    [id |-> i, name |-> n, description |-> "", isActive |-> TRUE,
     maxParallelJobs |-> 1, owner |-> 1, postScripts |-> <<>>,
     preScripts |-> <<>>, quota |-> JInt(-1), rsyncLongArgs |-> "",
     rsyncShortArgs |-> "", sshArgs |-> "", url |-> ""]

\* A job as GET /api/jobs.json returns it.
JobObject(i, n, c) ==
    [id |-> i, name |-> n, backupLocation |-> 1, client |-> c,
     description |-> "", exclude |-> Null, include |-> Null, isActive |-> TRUE,
     minNotificationLevel |-> 0, notificationsEmail |-> Null,
     notificationsTo |-> <<>>, path |-> "", policy |-> 1, postScripts |-> <<>>,
     preScripts |-> <<>>, token |-> "", useLocalPermissions |-> TRUE]

\* What the server may hold in the fields of its clients at the start: the
\* defaults, the quota as a numeral in a string, lists in another order.
ClientViews == {"default", "numeral", "post", "pre", "quota"}
ClientView(c, v) ==
    CASE v = "default" -> c
      [] v = "numeral" -> [c EXCEPT !.quota = JStr(-1), !.owner = 2]
      [] v = "post" -> [c EXCEPT !.postScripts = <<2, 1>>]
      [] v = "pre" -> [c EXCEPT !.preScripts = <<1, 2>>]
      [] v = "quota" -> [c EXCEPT !.quota = JStr(20000)]

\* The same for its jobs; "empty" is an exclude pattern held as ''.
JobViews == {"default", "notify", "post", "pre", "empty"}
JobView(j, v) ==
    CASE v = "default" -> j
      [] v = "notify" -> [j EXCEPT !.notificationsTo = <<"owner", "admin">>]
      [] v = "post" -> [j EXCEPT !.postScripts = <<2, 1>>]
      [] v = "pre" -> [j EXCEPT !.preScripts = <<1, 2>>]
      [] v = "empty" -> [j EXCEPT !.exclude = ""]

NameSeqs == UNION {[1..k -> Names] : k \in 0..MaxRemote}

InitialClients(views) ==
    {[i \in 1..Len(ns) |-> ClientView(ClientObject(i, ns[i]), v)] :
        ns \in NameSeqs, v \in views}

\* The clients of a server whose jobs are looked at: "a", or "ab" and "a".
ClientsWithJobs ==
    {<<ClientObject(1, <<"a">>)>>,
     <<ClientObject(1, <<"a", "b">>), ClientObject(2, <<"a">>)>>}

\* Each job belongs to the first client or, with several clients, job i to
\* client i.
InitialJobs(owners) ==
    {[i \in 1..Len(ns) |->
        JobView(JobObject(i, ns[i], IF own /\ i <= Len(owners) THEN i ELSE 1), v)] :
        ns \in NameSeqs, v \in JobViews,
        own \in IF Len(owners) > 1 THEN BOOLEAN ELSE {FALSE}}

\* The server's name filter (?name=...): exact match or substring match.
IsSubstring(q, n) ==
    \E i \in 1..(Len(n) - Len(q) + 1) : SubSeq(n, i, i + Len(q) - 1) = q
NameFilter(mode, q, n) == IF mode = "exact" THEN n = q ELSE IsSubstring(q, n)

\* The array a GET with params {'name': name} answers with.
Listing(objects, mode, name) ==
    SelectSeq(objects, LAMBDA o : NameFilter(mode, name, o.name))

\* The bodies the API answers a refused request with.
ApiErrors ==
    {[title |-> "An error occurred", detail |-> <<"Script 1 is not a pre script">>],
     [title |-> "Not Found", detail |-> <<"Not Found">>]}

\* A requests.Response: truthy iff ok; its JSON body holds an id or an error.
Accepted(i) == [ok |-> TRUE, id |-> Some(JInt(i)), title |-> "", detail |-> <<>>]
Refused(e) == [ok |-> FALSE, id |-> None, title |-> e.title, detail |-> e.detail]

\* ------------------------------------------------------------- Python values
\* What create_*, update_* and delete_* return and what api_result holds:
\* an int, a bool, the Response object itself, or the dict of a JSON body.
PyInt(n) == [type |-> "int", value |-> n, title |-> "", detail |-> <<>>]
PyBool(b) == [type |-> "bool", value |-> IF b THEN 1 ELSE 0, title |-> "", detail |-> <<>>]
PyResponse(r) == [type |-> "Response", value |-> 0, title |-> r.title, detail |-> r.detail]
PyDict(t, d) == [type |-> "dict", value |-> 0, title |-> t, detail |-> d]
NoValue == [type |-> "absent", value |-> 0, title |-> "", detail |-> <<>>]

\* x.json(): the body of a Response; an int has no such method.
has_json(x) == x.type = "Response"
json(x) == PyDict(x.title, x.detail)

VARIABLES
    clients,        \* the server: its clients, in the order it lists them
    jobs,           \* the server: its jobs
    nextClientId,   \* the server: the id the next created client gets
    nextJobId,      \* the server: the id the next created job gets
    nameFilter,     \* the server: how ?name= filters, "exact" or "partial"
    pc,             \* per process: where the invocation stands
    params,         \* per process: module.params
    client,         \* per process: the local client (None or Some(object))
    job,            \* per process: the local job (None or Some(object))
    result,         \* per process: the result dict
    outcome,        \* per process: how the invocation ended
    calls,          \* per process: the HTTP requests of the invocation so far
    prev,           \* per process: how the invocation it repeats ended
    reruns          \* repetitions so far

server == <<clients, jobs, nextClientId, nextJobId, nameFilter>>
vars == <<clients, jobs, nextClientId, nextJobId, nameFilter,
          pc, params, client, job, result, outcome, calls, prev, reruns>>

\* result = dict(changed=False)
NewResult == [keys |-> {"changed"}, changed |-> FALSE, id |-> 0,
              api_result |-> NoValue, msg |-> ""]

\* No earlier invocation is being repeated.
NoRun == [outcome |-> "", changed |-> FALSE]

NoArgs == [module |-> "", name |-> <<>>, state |-> ""]

\* One HTTP request: the method, the collection, the id in the URL (0: none),
\* the name in the query string (<<>>: none), the JSON sent (None: none), and
\* what came back: the array of a GET, or the one Response of a write.
Request(method, path, i, name, body, reply) ==
    [method |-> method, path |-> path, id |-> i, name |-> name, json |-> body,
     reply |-> reply]

\* ------------------------------------------------------------- lookups
\* The scan that returns the first element without comparing names.
first_listed(objects, name) ==
    IF Len(objects) = 0 THEN None ELSE Some(objects[1])

\* for c in clients: if c['name'] == name: return c; return None
first_named(objects, name) ==
    LET hits == {i \in 1..Len(objects) : objects[i].name = name}
    IN  IF hits = {} THEN None
        ELSE Some(objects[CHOOSE i \in hits : \A k \in hits : i <= k])

\* The lookup that takes the first hit, whatever its name.
get_client_by_name_first(listed, name) ==
    IF Len(listed) > 0 THEN Some(listed[1]) ELSE None

\* The lookup that gives up on an answer of several clients.
get_client_by_name_single(listed, name) ==
    IF Len(listed) = 1 THEN Some(listed[1]) ELSE None

\* elkarbackup_client.get_client_by_name, on the array the server answered.
get_client_by_name(listed, name) ==
    IF Len(listed) = 1 THEN Some(listed[1])
    ELSE IF Len(listed) > 0 THEN first_named(listed, name)
    ELSE None

\* elkarbackup_job.get_client_by_name, the same function repeated there.
job_get_client_by_name(listed, name) ==
    IF Len(listed) = 1 THEN Some(listed[1])
    ELSE IF Len(listed) > 0 THEN first_named(listed, name)
    ELSE None

\* The lookup without the scan of several hits for the exact name.
get_job_by_name_single(listed, name) ==
    IF Len(listed) = 1 THEN Some(listed[1]) ELSE None

\* elkarbackup_job.get_job_by_name.
get_job_by_name(listed, name) ==
    IF Len(listed) = 1 THEN Some(listed[1])
    ELSE IF Len(listed) > 0 THEN first_named(listed, name)
    ELSE None

\* ------------------------------------------------------------- comparisons
\* a != b on scalars.
differs(a, b) == a # b
\* Lists compared as lists: a != b.
set_differs_ordered(a, b) == a # b
\* set(a) != set(b) on lists.
set_differs(a, b) == set(a) # set(b)

\* The comparisons of elkarbackup_client.run_module, after
\* client['quota'] = int(client['quota']): the fields found different.
client_diff(c, m) ==
    {f \in {"description", "isActive", "maxParallelJobs", "name", "postScripts",
            "preScripts", "quota", "rsyncLongArgs", "rsyncShortArgs", "sshArgs",
            "url"} :
        CASE f = "description" -> differs(c.description, m.description)
          [] f = "isActive" -> differs(c.isActive, m.is_active)
          [] f = "maxParallelJobs" -> differs(c.maxParallelJobs, m.max_parallel_jobs)
          [] f = "name" -> differs(c.name, m.name)
          [] f = "postScripts" -> set_differs(c.postScripts, m.post_scripts)
          [] f = "preScripts" -> set_differs(c.preScripts, m.pre_scripts)
          [] f = "quota" -> differs(int(c.quota), JInt(m.quota))
          [] f = "rsyncLongArgs" -> differs(c.rsyncLongArgs, m.rsync_long_args)
          [] f = "rsyncShortArgs" -> differs(c.rsyncShortArgs, m.rsync_short_args)
          [] f = "sshArgs" -> differs(c.sshArgs, m.ssh_args)
          [] f = "url" -> differs(c.url, m.url)}

\* The assignment left out: the field is sent back as the server holds it.
never_assigned(d, f, new, old) == old
\* The assignment made without looking at the comparison.
always_assigned(d, f, new, old) == new

\* if <f differs>: obj[f] = module.params[f]
assigned(d, f, new, old) == IF f \in d THEN new ELSE old

\* The client dict after the assignments: quota through int(), then each
\* field found different takes the argument's value.
client_merged(c, m) ==
    LET d == client_diff(c, m)
        pick(f, new, old) == assigned(d, f, new, old)
    IN  [c EXCEPT
            !.description = pick("description", m.description, @),
            !.isActive = pick("isActive", m.is_active, @),
            !.maxParallelJobs = pick("maxParallelJobs", m.max_parallel_jobs, @),
            !.name = pick("name", m.name, @),
            !.postScripts = pick("postScripts", m.post_scripts, @),
            !.preScripts = pick("preScripts", m.pre_scripts, @),
            !.quota = pick("quota", JInt(m.quota), int(@)),
            !.rsyncLongArgs = pick("rsyncLongArgs", m.rsync_long_args, @),
            !.rsyncShortArgs = pick("rsyncShortArgs", m.rsync_short_args, @),
            !.sshArgs = pick("sshArgs", m.ssh_args, @),
            !.url = pick("url", m.url, @)]

\* The dict built for a client that does not exist yet.
client_new(m) ==
    [description |-> m.description, isActive |-> m.is_active,
     maxParallelJobs |-> m.max_parallel_jobs, name |-> m.name,
     preScripts |-> m.pre_scripts, postScripts |-> m.post_scripts,
     quota |-> JInt(m.quota), rsyncLongArgs |-> m.rsync_long_args,
     rsyncShortArgs |-> m.rsync_short_args, sshArgs |-> m.ssh_args,
     url |-> m.url]

\* The comparisons of elkarbackup_job.run_module: the fields found different.
job_diff(j, cid, m) ==
    {f \in {"backupLocation", "client", "description", "exclude", "include",
            "isActive", "minNotificationLevel", "name", "notificationsEmail",
            "notificationsTo", "path", "policy", "postScripts", "preScripts",
            "token", "useLocalPermissions"} :
        CASE f = "backupLocation" -> differs(j.backupLocation, m.backup_location)
          [] f = "client" -> differs(j.client, cid)
          [] f = "description" -> differs(j.description, m.description)
          [] f = "exclude" -> differs(j.exclude, m.exclude)
          [] f = "include" -> differs(j.include, m.include)
          [] f = "isActive" -> differs(j.isActive, m.is_active)
          [] f = "minNotificationLevel" ->
                differs(j.minNotificationLevel, m.min_notification_level)
          [] f = "name" -> differs(j.name, m.name)
          [] f = "notificationsEmail" ->
                differs(j.notificationsEmail, m.notifications_email)
          [] f = "notificationsTo" ->
                set_differs(j.notificationsTo, m.notifications_to)
          [] f = "path" -> differs(j.path, m.path)
          [] f = "policy" -> differs(j.policy, m.policy)
          [] f = "postScripts" -> set_differs(j.postScripts, m.post_scripts)
          [] f = "preScripts" -> set_differs(j.preScripts, m.pre_scripts)
          [] f = "token" -> differs(j.token, m.token)
          [] f = "useLocalPermissions" ->
                differs(j.useLocalPermissions, m.use_local_permissions)}

\* The job dict after the assignments.
job_merged(j, cid, m) ==
    LET d == job_diff(j, cid, m)
        pick(f, new, old) == assigned(d, f, new, old)
    IN  [j EXCEPT
            !.backupLocation = pick("backupLocation", m.backup_location, @),
            !.client = pick("client", cid, @),
            !.description = pick("description", m.description, @),
            !.exclude = pick("exclude", m.exclude, @),
            !.include = pick("include", m.include, @),
            !.isActive = pick("isActive", m.is_active, @),
            !.minNotificationLevel =
                pick("minNotificationLevel", m.min_notification_level, @),
            !.name = pick("name", m.name, @),
            !.notificationsEmail =
                pick("notificationsEmail", m.notifications_email, @),
            !.notificationsTo = pick("notificationsTo", m.notifications_to, @),
            !.path = pick("path", m.path, @),
            !.policy = pick("policy", m.policy, @),
            !.postScripts = pick("postScripts", m.post_scripts, @),
            !.preScripts = pick("preScripts", m.pre_scripts, @),
            !.token = pick("token", m.token, @),
            !.useLocalPermissions =
                pick("useLocalPermissions", m.use_local_permissions, @)]

\* The dict built with the id of the first client instead of the resolved one.
job_new_first_client(cid, m) ==
    [backupLocation |-> m.backup_location, client |-> 1,
     description |-> m.description, exclude |-> m.exclude, include |-> m.include,
     isActive |-> m.is_active, minNotificationLevel |-> m.min_notification_level,
     name |-> m.name, notificationsEmail |-> m.notifications_email,
     notificationsTo |-> m.notifications_to, path |-> m.path, policy |-> m.policy,
     postScripts |-> m.post_scripts, preScripts |-> m.pre_scripts,
     token |-> m.token, useLocalPermissions |-> m.use_local_permissions]

\* The dict built for a job that does not exist yet.
job_new(cid, m) ==
    [backupLocation |-> m.backup_location, client |-> cid,
     description |-> m.description, exclude |-> m.exclude, include |-> m.include,
     isActive |-> m.is_active, minNotificationLevel |-> m.min_notification_level,
     name |-> m.name, notificationsEmail |-> m.notifications_email,
     notificationsTo |-> m.notifications_to, path |-> m.path, policy |-> m.policy,
     postScripts |-> m.post_scripts, preScripts |-> m.pre_scripts,
     token |-> m.token, useLocalPermissions |-> m.use_local_permissions]

\* ------------------------------------------------------------- API wrappers
\* create_client / create_job: int(new['id']) if the body has an id, else
\* the Response.
create_client(response) ==
    IF response.id # None THEN PyInt(int(response.id[1]).v) ELSE PyResponse(response)
create_job(response) ==
    IF response.id # None THEN PyInt(int(response.id[1]).v) ELSE PyResponse(response)

\* update_client / update_job: new['id'] as the body holds it, else the Response.
update_client(response) ==
    IF response.id # None THEN PyInt(response.id[1].v) ELSE PyResponse(response)
update_job(response) ==
    IF response.id # None THEN PyInt(response.id[1].v) ELSE PyResponse(response)

\* delete_client / delete_job: True if the Response is truthy, else the Response.
delete_client(response) ==
    IF response.ok THEN PyBool(TRUE) ELSE PyResponse(response)
delete_job(response) ==
    IF response.ok THEN PyBool(TRUE) ELSE PyResponse(response)

\* ------------------------------------------------------------- outcomes
\* module.exit_json(**result)
exit_json(res) == [outcome |-> "exit_json", result |-> res]
\* module.fail_json(msg=..., **result)
fail_json(msg, res) ==
    [outcome |-> "fail_json",
     result |-> [res EXCEPT !.msg = msg, !.keys = @ \cup {"msg"}]]
\* An exception that run_module does not catch: no result is written.
exception(res) == [outcome |-> "exception", result |-> res]

changed_with_id(res, i) ==
    [res EXCEPT !.changed = TRUE, !.id = i, !.keys = @ \cup {"id"}]
failed_with(res, x) ==
    [res EXCEPT !.changed = FALSE, !.api_result = x, !.keys = @ \cup {"api_result"}]

\* A creation that went through but is not reported as a change.
client_created_quiet(res, id) ==
    IF id.type = "int" /\ id.value # 0
    THEN exit_json([res EXCEPT !.id = id.value, !.keys = @ \cup {"id"}])
    ELSE fail_json("Client creation failed", failed_with(res, id))

\* elkarbackup_client, after id = create_client(...).
client_created(res, id) ==
    IF id.type = "int" /\ id.value # 0
    THEN exit_json(changed_with_id(res, id.value))
    ELSE fail_json("Client creation failed", failed_with(res, id))

\* An update that went through but is not reported as a change.
client_updated_quiet(res, id) ==
    IF id.type = "int" /\ id.value # 0
    THEN exit_json([res EXCEPT !.id = id.value, !.keys = @ \cup {"id"}])
    ELSE IF has_json(id)
         THEN fail_json("Client update failed", failed_with(res, json(id)))
         ELSE exception([res EXCEPT !.changed = FALSE])

\* elkarbackup_client, after id = update_client(...).
client_updated(res, id) ==
    IF id.type = "int" /\ id.value # 0
    THEN exit_json(changed_with_id(res, id.value))
    ELSE IF has_json(id)
         THEN fail_json("Client update failed", failed_with(res, json(id)))
         ELSE exception([res EXCEPT !.changed = FALSE])

\* result['api_result'] = ok assigned before the test instead of after it.
client_deleted_reporting(res, ok) ==
    IF ok.type = "bool" /\ ok.value = 1
    THEN exit_json([failed_with(res, ok) EXCEPT !.changed = TRUE])
    ELSE fail_json("Client deletion failed", failed_with(res, ok))

\* elkarbackup_client, after ok = delete_client(...).
client_deleted(res, ok) ==
    IF ok.type = "bool" /\ ok.value = 1
    THEN exit_json([res EXCEPT !.changed = TRUE])
    ELSE fail_json("Client deletion failed", failed_with(res, ok))

\* elkarbackup_job, after id = create_job(...).
job_created(res, id) ==
    IF id.type = "int" /\ id.value # 0
    THEN exit_json(changed_with_id(res, id.value))
    ELSE IF has_json(id)
         THEN fail_json("Job creation failed", failed_with(res, json(id)))
         ELSE exception([res EXCEPT !.changed = FALSE])

\* The test "id != 0" without "type(id) is int": a Response passes it.
job_updated_untyped(res, id) ==
    IF id.type # "int" \/ id.value # 0
    THEN exit_json(changed_with_id(res, id.value))
    ELSE exception([res EXCEPT !.changed = FALSE])

\* elkarbackup_job, after id = update_job(...).
job_updated(res, id) ==
    IF id.type = "int" /\ id.value # 0
    THEN exit_json(changed_with_id(res, id.value))
    ELSE IF has_json(id)
         THEN fail_json("Job update failed", failed_with(res, json(id)))
         ELSE exception([res EXCEPT !.changed = FALSE])

\* elkarbackup_job, after ok = delete_job(...).
job_deleted(res, ok) ==
    IF ok.type = "bool" /\ ok.value = 1
    THEN exit_json([res EXCEPT !.changed = TRUE])
    ELSE fail_json("Job deletion failed", failed_with(res, ok))

\* The failure reported through exit_json.
client_not_found_exits(res, m) ==
    exit_json(failed_with(res, PyDict("Client name not found",
                                      <<"Client name ">> \o m.client_name
                                      \o <<" not found">>)))

\* The detail with the name between single quotes.
client_not_found_quoted(res, m) ==
    fail_json("Play failed",
              failed_with(res, PyDict("Client name not found",
                                      <<"Client name ", "'">> \o m.client_name
                                      \o <<"'", " not found">>)))

\* elkarbackup_job, when client_name names no client.
client_not_found(res, m) ==
    fail_json("Play failed",
              failed_with(res, PyDict("Client name not found",
                                      <<"Client name ">> \o m.client_name
                                      \o <<" not found">>)))

\* ------------------------------------------------------------- the server's side
\* What the server answers a POST with: the object created under a new id, a
\* body whose id is 0, or an error body.
PostResponses(newId) ==
    {Accepted(newId), Accepted(0)} \cup {Refused(e) : e \in ApiErrors}

\* What it answers a PUT or DELETE of object i with; one it does not hold is
\* refused.
PutResponses(objects, i) ==
    (IF \E k \in 1..Len(objects) : objects[k].id = i
     THEN {Accepted(i), Accepted(0)} ELSE {})
    \cup {Refused(e) : e \in ApiErrors}
DeleteResponses(objects, i) ==
    (IF \E k \in 1..Len(objects) : objects[k].id = i
     THEN {Accepted(i)} ELSE {})
    \cup {Refused(e) : e \in ApiErrors}

\* The server stores what it is sent, unless it refuses or answers id 0.
Stores(response) == response.ok /\ response.id # Some(JInt(0))

\* The object a POST creates: the fields sent, a new id, the owner the
\* server gives a client.
NewClient(i, new) ==
    [id |-> i, name |-> new.name, description |-> new.description,
     isActive |-> new.isActive, maxParallelJobs |-> new.maxParallelJobs,
     owner |-> 1, postScripts |-> new.postScripts, preScripts |-> new.preScripts,
     quota |-> new.quota, rsyncLongArgs |-> new.rsyncLongArgs,
     rsyncShortArgs |-> new.rsyncShortArgs, sshArgs |-> new.sshArgs,
     url |-> new.url]
NewJob(i, new) ==
    [id |-> i, name |-> new.name, backupLocation |-> new.backupLocation,
     client |-> new.client, description |-> new.description,
     exclude |-> new.exclude, include |-> new.include, isActive |-> new.isActive,
     minNotificationLevel |-> new.minNotificationLevel,
     notificationsEmail |-> new.notificationsEmail,
     notificationsTo |-> new.notificationsTo, path |-> new.path,
     policy |-> new.policy, postScripts |-> new.postScripts,
     preScripts |-> new.preScripts, token |-> new.token,
     useLocalPermissions |-> new.useLocalPermissions]

\* A server that keeps names unique: it does not store a second object of a
\* name it holds.
Created_unless_named(objects, response, object) ==
    IF Stores(response) /\ \A k \in 1..Len(objects) : objects[k].name # object.name
    THEN Append(objects, object) ELSE objects

Created(objects, response, object) ==
    IF Stores(response) THEN Append(objects, object) ELSE objects
Replaced(objects, response, object) ==
    IF Stores(response)
    THEN [k \in 1..Len(objects) |->
            IF objects[k].id = object.id THEN object ELSE objects[k]]
    ELSE objects
Removed(objects, response, i) ==
    IF response.ok THEN SelectSeq(objects, LAMBDA o : o.id # i) ELSE objects

\* ------------------------------------------------------------- the invocations
Init ==
    /\ nameFilter \in {"exact", "partial"}
    /\ \/ clients \in InitialClients(ClientViews) /\ jobs = <<>>
       \/ clients \in ClientsWithJobs /\ jobs \in InitialJobs(clients)
    /\ nextClientId = Len(clients) + 1
    /\ nextJobId = Len(jobs) + 1
    /\ pc = [p \in Procs |-> "idle"]
    /\ params = [p \in Procs |-> NoArgs]
    /\ client = [p \in Procs |-> None]
    /\ job = [p \in Procs |-> None]
    /\ result = [p \in Procs |-> NewResult]
    /\ outcome = [p \in Procs |-> ""]
    /\ calls = [p \in Procs |-> <<>>]
    /\ prev = [p \in Procs |-> NoRun]
    /\ reruns = 0

Begin(p, m, before) ==
    /\ params' = [params EXCEPT ![p] = m]
    /\ pc' = [pc EXCEPT ![p] = "start"]
    /\ client' = [client EXCEPT ![p] = None]
    /\ job' = [job EXCEPT ![p] = None]
    /\ result' = [result EXCEPT ![p] = NewResult]
    /\ outcome' = [outcome EXCEPT ![p] = ""]
    /\ calls' = [calls EXCEPT ![p] = <<>>]
    /\ prev' = [prev EXCEPT ![p] = before]
    /\ UNCHANGED server

\* A task of the play runs the module with its arguments.
Start(p) ==
    /\ pc[p] = "idle"
    /\ \E m \in TaskArgs : Begin(p, m, NoRun)
    /\ UNCHANGED reruns

\* A play that went through is run again: the same task, the same arguments.
Rerun(p) ==
    /\ pc[p] = "done"
    /\ outcome[p] = "exit_json"
    /\ reruns < MaxReruns
    /\ Begin(p, params[p],
             [outcome |-> outcome[p], changed |-> result[p].changed])
    /\ reruns' = reruns + 1

End(p, how) ==
    /\ result' = [result EXCEPT ![p] = how.result]
    /\ outcome' = [outcome EXCEPT ![p] = how.outcome]
    /\ pc' = [pc EXCEPT ![p] = "done"]

\* A request that is sent a second time.
Sent_again(p, request) ==
    calls' = [calls EXCEPT ![p] = Append(Append(@, request), request)]

Sent(p, request) == calls' = [calls EXCEPT ![p] = Append(@, request)]

IsClientRun(p, state) ==
    params[p].module = "elkarbackup_client" /\ params[p].state = state
IsJobRun(p, state) ==
    params[p].module = "elkarbackup_job" /\ params[p].state = state

\* elkarbackup_client: client = get_client_by_name(...), either state.
ClientLookup(p) ==
    /\ pc[p] = "start"
    /\ params[p].module = "elkarbackup_client"
    /\ LET listed == Listing(clients, nameFilter, params[p].name)
       IN  /\ client' = [client EXCEPT ![p] =
                    get_client_by_name(listed, params[p].name)]
           /\ Sent(p, Request("GET", "clients", 0, params[p].name, None, listed))
    /\ pc' = [pc EXCEPT ![p] = "located"]
    /\ UNCHANGED <<server, params, job, result, outcome, prev, reruns>>

\* state=present, no such client: build the dict, POST it.
ClientCreate(p) ==
    /\ pc[p] = "located"
    /\ IsClientRun(p, "present")
    /\ client[p] = None
    /\ LET new == client_new(params[p])
       IN  \E response \in PostResponses(nextClientId) :
             /\ clients' = Created(clients, response, NewClient(nextClientId, new))
             /\ nextClientId' = IF Stores(response) THEN nextClientId + 1
                                                    ELSE nextClientId
             /\ Sent(p, Request("POST", "clients", 0, <<>>, Some(new), <<response>>))
             /\ End(p, client_created(result[p], create_client(response)))
    /\ UNCHANGED <<jobs, nextJobId, nameFilter, params, client, job, prev, reruns>>

\* state=present, the client exists and a field differs: PUT the merged dict.
ClientUpdate(p) ==
    /\ pc[p] = "located"
    /\ IsClientRun(p, "present")
    /\ client[p] # None
    /\ client_diff(client[p][1], params[p]) # {}
    /\ LET merged == client_merged(client[p][1], params[p])
       IN  \E response \in PutResponses(clients, merged.id) :
             /\ clients' = Replaced(clients, response, merged)
             /\ client' = [client EXCEPT ![p] = Some(merged)]
             /\ Sent(p, Request("PUT", "clients", merged.id, <<>>, Some(merged),
                                <<response>>))
             /\ End(p, client_updated(result[p], update_client(response)))
    /\ UNCHANGED <<jobs, nextClientId, nextJobId, nameFilter, params, job, prev,
                   reruns>>

\* state=present, the client exists and no field differs.
ClientUnchanged(p) ==
    /\ pc[p] = "located"
    /\ IsClientRun(p, "present")
    /\ client[p] # None
    /\ client_diff(client[p][1], params[p]) = {}
    /\ client' = [client EXCEPT ![p] = Some(client_merged(client[p][1], params[p]))]
    /\ End(p, exit_json([result[p] EXCEPT !.changed = FALSE]))
    /\ UNCHANGED <<server, params, job, calls, prev, reruns>>

\* state=absent, the client exists: DELETE it by id.
ClientDelete(p) ==
    /\ pc[p] = "located"
    /\ IsClientRun(p, "absent")
    /\ client[p] # None
    /\ \E response \in DeleteResponses(clients, client[p][1].id) :
         /\ clients' = Removed(clients, response, client[p][1].id)
         /\ Sent(p, Request("DELETE", "clients", client[p][1].id, <<>>, None,
                            <<response>>))
         /\ End(p, client_deleted(result[p], delete_client(response)))
    /\ UNCHANGED <<jobs, nextClientId, nextJobId, nameFilter, params, client, job,
                   prev, reruns>>

\* state=absent, no such client.
ClientAbsent(p) ==
    /\ pc[p] = "located"
    /\ IsClientRun(p, "absent")
    /\ client[p] = None
    /\ End(p, exit_json([result[p] EXCEPT !.changed = FALSE]))
    /\ UNCHANGED <<server, params, client, job, calls, prev, reruns>>

\* elkarbackup_job, state=present: client = get_client_by_name(client_name);
\* without a client the module fails here.
JobResolveClient(p) ==
    /\ pc[p] = "start"
    /\ IsJobRun(p, "present")
    /\ LET listed == Listing(clients, nameFilter, params[p].client_name)
           found == job_get_client_by_name(listed, params[p].client_name)
       IN  /\ client' = [client EXCEPT ![p] = found]
           /\ Sent(p, Request("GET", "clients", 0, params[p].client_name, None,
                              listed))
           /\ IF found = None
              THEN End(p, client_not_found(result[p], params[p]))
              ELSE /\ pc' = [pc EXCEPT ![p] = "resolved"]
                   /\ UNCHANGED <<result, outcome>>
    /\ UNCHANGED <<server, params, job, prev, reruns>>

\* elkarbackup_job: job = get_job_by_name(...), either state.
JobLookup(p) ==
    /\ \/ pc[p] = "resolved" /\ IsJobRun(p, "present")
       \/ pc[p] = "start" /\ IsJobRun(p, "absent")
    /\ LET listed == Listing(jobs, nameFilter, params[p].name)
       IN  /\ job' = [job EXCEPT ![p] = get_job_by_name(listed, params[p].name)]
           /\ Sent(p, Request("GET", "jobs", 0, params[p].name, None, listed))
    /\ pc' = [pc EXCEPT ![p] = "located"]
    /\ UNCHANGED <<server, params, client, result, outcome, prev, reruns>>

\* state=present, no such job: build the dict, POST it.
JobCreate(p) ==
    /\ pc[p] = "located"
    /\ IsJobRun(p, "present")
    /\ job[p] = None
    /\ LET new == job_new(client[p][1].id, params[p])
       IN  \E response \in PostResponses(nextJobId) :
             /\ jobs' = Created(jobs, response, NewJob(nextJobId, new))
             /\ nextJobId' = IF Stores(response) THEN nextJobId + 1 ELSE nextJobId
             /\ Sent(p, Request("POST", "jobs", 0, <<>>, Some(new), <<response>>))
             /\ End(p, job_created(result[p], create_job(response)))
    /\ UNCHANGED <<clients, nextClientId, nameFilter, params, client, job, prev,
                   reruns>>

\* state=present, the job exists and a field differs: PUT the merged dict.
JobUpdate(p) ==
    /\ pc[p] = "located"
    /\ IsJobRun(p, "present")
    /\ job[p] # None
    /\ job_diff(job[p][1], client[p][1].id, params[p]) # {}
    /\ LET merged == job_merged(job[p][1], client[p][1].id, params[p])
       IN  \E response \in PutResponses(jobs, merged.id) :
             /\ jobs' = Replaced(jobs, response, merged)
             /\ job' = [job EXCEPT ![p] = Some(merged)]
             /\ Sent(p, Request("PUT", "jobs", merged.id, <<>>, Some(merged),
                                <<response>>))
             /\ End(p, job_updated(result[p], update_job(response)))
    /\ UNCHANGED <<clients, nextClientId, nextJobId, nameFilter, params, client,
                   prev, reruns>>

\* state=present, the job exists and no field differs.
JobUnchanged(p) ==
    /\ pc[p] = "located"
    /\ IsJobRun(p, "present")
    /\ job[p] # None
    /\ job_diff(job[p][1], client[p][1].id, params[p]) = {}
    /\ End(p, exit_json([result[p] EXCEPT !.changed = FALSE]))
    /\ UNCHANGED <<server, params, client, job, calls, prev, reruns>>

\* state=absent, the job exists: DELETE it by id.
JobDelete(p) ==
    /\ pc[p] = "located"
    /\ IsJobRun(p, "absent")
    /\ job[p] # None
    /\ \E response \in DeleteResponses(jobs, job[p][1].id) :
         /\ jobs' = Removed(jobs, response, job[p][1].id)
         /\ Sent(p, Request("DELETE", "jobs", job[p][1].id, <<>>, None,
                            <<response>>))
         /\ End(p, job_deleted(result[p], delete_job(response)))
    /\ UNCHANGED <<clients, nextClientId, nextJobId, nameFilter, params, client,
                   job, prev, reruns>>

\* state=absent, no such job.
JobAbsent(p) ==
    /\ pc[p] = "located"
    /\ IsJobRun(p, "absent")
    /\ job[p] = None
    /\ End(p, exit_json([result[p] EXCEPT !.changed = FALSE]))
    /\ UNCHANGED <<server, params, client, job, calls, prev, reruns>>

Run(p) ==
    \/ Start(p) \/ Rerun(p)
    \/ ClientLookup(p) \/ ClientCreate(p) \/ ClientUpdate(p) \/ ClientUnchanged(p)
    \/ ClientDelete(p) \/ ClientAbsent(p)
    \/ JobResolveClient(p) \/ JobLookup(p) \/ JobCreate(p) \/ JobUpdate(p)
    \/ JobUnchanged(p) \/ JobDelete(p) \/ JobAbsent(p)

\* One play: its tasks run one at a time, nobody else writes to the server.
Next == Run(Playbook)

Spec == Init /\ [][Next]_vars

\* ------------------------------------------------------------- two plays at once
\* The tasks of two plays that run against the same server at the same time:
\* state=present, every other argument at its default.
RaceArgs ==
    {ClientArgs(n, "present") : n \in Names}
    \cup {JobArgs(n, <<"a">>, "present") : n \in Names}

\* The servers they start on: clients and jobs with the default fields.
RaceInit ==
    /\ nameFilter \in {"exact", "partial"}
    /\ \/ clients \in InitialClients({"default"}) /\ jobs = <<>>
       \/ /\ clients \in ClientsWithJobs
          /\ jobs \in {js \in InitialJobs(clients) :
                         \A i \in 1..Len(js) :
                            js[i] = JobObject(i, js[i].name, js[i].client)}
    /\ nextClientId = Len(clients) + 1
    /\ nextJobId = Len(jobs) + 1
    /\ pc = [p \in Procs |-> "idle"]
    /\ params = [p \in Procs |-> NoArgs]
    /\ client = [p \in Procs |-> None]
    /\ job = [p \in Procs |-> None]
    /\ result = [p \in Procs |-> NewResult]
    /\ outcome = [p \in Procs |-> ""]
    /\ calls = [p \in Procs |-> <<>>]
    /\ prev = [p \in Procs |-> NoRun]
    /\ reruns = 0

RaceStart(p) ==
    /\ pc[p] = "idle"
    /\ \E m \in RaceArgs : Begin(p, m, NoRun)
    /\ UNCHANGED reruns

\* One invocation of either module with state=present.
RaceRun(p) ==
    \/ RaceStart(p)
    \/ ClientLookup(p) \/ ClientCreate(p) \/ ClientUpdate(p) \/ ClientUnchanged(p)
    \/ JobResolveClient(p) \/ JobLookup(p) \/ JobCreate(p) \/ JobUpdate(p)
    \/ JobUnchanged(p)

\* Each process runs one invocation; their HTTP requests interleave freely,
\* since nothing in run_module locks the name between its GET and its POST.
RaceNext == \E p \in Procs : RaceRun(p)

SpecRace == RaceInit /\ [][RaceNext]_vars

\* ------------------------------------------------------------- a play of several tasks
\* The tasks of a play that manages clients and their jobs: either module,
\* either state, every other argument at its default.
SeqArgs ==
    {ClientArgs(n, s) : n \in Names, s \in {"present", "absent"}}
    \cup {JobArgs(n, cn, s) : n \in Names, cn \in Names, s \in {"present", "absent"}}

\* No two objects of the list have the same name.
UniqueNames(objects) ==
    \A i, k \in 1..Len(objects) : i # k => objects[i].name # objects[k].name

\* The servers the play starts on: no two clients and no two jobs of one name.
SeqInit ==
    /\ RaceInit
    /\ UniqueNames(clients)
    /\ UniqueNames(jobs)

\* The next task of the play starts when the one before it is over, however
\* it ended; reruns counts the tasks the play has started.
SeqStart(p) ==
    /\ pc[p] \in {"idle", "done"}
    /\ reruns < MaxTasks
    /\ \E m \in SeqArgs : Begin(p, m, NoRun)
    /\ reruns' = reruns + 1

SeqRun(p) ==
    \/ SeqStart(p)
    \/ ClientLookup(p) \/ ClientCreate(p) \/ ClientUpdate(p) \/ ClientUnchanged(p)
    \/ ClientDelete(p) \/ ClientAbsent(p)
    \/ JobResolveClient(p) \/ JobLookup(p) \/ JobCreate(p) \/ JobUpdate(p)
    \/ JobUnchanged(p) \/ JobDelete(p) \/ JobAbsent(p)

\* One play, one task at a time: no two invocations overlap.
SeqNext == SeqRun(Playbook)

SpecSeq == SeqInit /\ [][SeqNext]_vars

\* ------------------------------------------------------------- what is checked
\* The POST, PUT and DELETE requests of p's invocation so far.
Writes(p) == SelectSeq(calls[p], LAMBDA r : r.method # "GET")
\* Its GET of the collection `path`.
Lookups(p, path) ==
    SelectSeq(calls[p], LAMBDA r : r.method = "GET" /\ r.path = path)

IsPresentRun(p) == params[p].state = "present"
IsAbsentRun(p) == params[p].state = "absent"
Collection(p) == IF params[p].module = "elkarbackup_client" THEN "clients" ELSE "jobs"
Remote(p) == IF params[p].module = "elkarbackup_client" THEN clients ELSE jobs

\* Two lists hold the same elements.
SameElements(a, b) ==
    /\ \A i \in 1..Len(a) : \E k \in 1..Len(b) : a[i] = b[k]
    /\ \A k \in 1..Len(b) : \E i \in 1..Len(a) : a[i] = b[k]

\* The managed scalar fields of object o that the arguments m (and, for a
\* job, the resolved client id cid) want another value for.
ScalarsToChange(o, cid, m) ==
    IF m.module = "elkarbackup_client"
    THEN {f \in {"description", "isActive", "maxParallelJobs", "name", "quota",
                 "rsyncLongArgs", "rsyncShortArgs", "sshArgs", "url"} :
            \/ f = "description" /\ o.description # m.description
            \/ f = "isActive" /\ o.isActive # m.is_active
            \/ f = "maxParallelJobs" /\ o.maxParallelJobs # m.max_parallel_jobs
            \/ f = "name" /\ o.name # m.name
            \/ f = "quota" /\ o.quota.v # m.quota
            \/ f = "rsyncLongArgs" /\ o.rsyncLongArgs # m.rsync_long_args
            \/ f = "rsyncShortArgs" /\ o.rsyncShortArgs # m.rsync_short_args
            \/ f = "sshArgs" /\ o.sshArgs # m.ssh_args
            \/ f = "url" /\ o.url # m.url}
    ELSE {f \in {"backupLocation", "client", "description", "exclude", "include",
                 "isActive", "minNotificationLevel", "name", "notificationsEmail",
                 "path", "policy", "token", "useLocalPermissions"} :
            \/ f = "backupLocation" /\ o.backupLocation # m.backup_location
            \/ f = "client" /\ o.client # cid
            \/ f = "description" /\ o.description # m.description
            \/ f = "exclude" /\ o.exclude # m.exclude
            \/ f = "include" /\ o.include # m.include
            \/ f = "isActive" /\ o.isActive # m.is_active
            \/ f = "minNotificationLevel"
               /\ o.minNotificationLevel # m.min_notification_level
            \/ f = "name" /\ o.name # m.name
            \/ f = "notificationsEmail"
               /\ o.notificationsEmail # m.notifications_email
            \/ f = "path" /\ o.path # m.path
            \/ f = "policy" /\ o.policy # m.policy
            \/ f = "token" /\ o.token # m.token
            \/ f = "useLocalPermissions"
               /\ o.useLocalPermissions # m.use_local_permissions}

\* The managed list fields of o whose element set the arguments want changed.
ListsToChange(o, m) ==
    IF m.module = "elkarbackup_client"
    THEN {f \in {"postScripts", "preScripts"} :
            \/ f = "postScripts" /\ ~SameElements(o.postScripts, m.post_scripts)
            \/ f = "preScripts" /\ ~SameElements(o.preScripts, m.pre_scripts)}
    ELSE {f \in {"postScripts", "preScripts", "notificationsTo"} :
            \/ f = "postScripts" /\ ~SameElements(o.postScripts, m.post_scripts)
            \/ f = "preScripts" /\ ~SameElements(o.preScripts, m.pre_scripts)
            \/ f = "notificationsTo"
               /\ ~SameElements(o.notificationsTo, m.notifications_to)}

\* o is what m asks for: scalars by value, lists as sets.
Satisfies(o, cid, m) ==
    ScalarsToChange(o, cid, m) = {} /\ ListsToChange(o, m) = {}

\* The id the module resolved client_name to (0 for a client task).
ResolvedId(p) ==
    IF params[p].module = "elkarbackup_job" /\ client[p] # None
    THEN client[p][1].id ELSE 0

\* C1. Idempotence of present: a state=present invocation that repeats one
\* that went through, on a server nobody else writes to, sends no POST, PUT
\* or DELETE and ends in exit_json with changed=false.
C1_PresentIdempotent ==
    \A p \in Procs :
        (IsPresentRun(p) /\ prev[p].outcome = "exit_json") =>
            /\ Writes(p) = <<>>
            /\ pc[p] = "done" =>
                  outcome[p] = "exit_json" /\ result[p].changed = FALSE

\* The repeated invocation has ended and the first one had changed the server.
C1_Witness ==
    \E p \in Procs :
        /\ pc[p] = "done" /\ IsPresentRun(p)
        /\ prev[p].outcome = "exit_json" /\ prev[p].changed
        /\ params[p].module = "elkarbackup_job"

\* C2. Convergence: when a state=present invocation has ended in exit_json,
\* the server holds an object of the requested name whose managed fields
\* all have the requested values (scalars by value, lists as sets; a job's
\* client is the id client_name resolved to).
C2_PresentConverges ==
    \A p \in Procs :
        (pc[p] = "done" /\ IsPresentRun(p) /\ outcome[p] = "exit_json") =>
            \E i \in 1..Len(Remote(p)) :
                /\ Remote(p)[i].name = params[p].name
                /\ Satisfies(Remote(p)[i], ResolvedId(p), params[p])

\* An update that went through, with a list argument among the changes.
C2_Witness ==
    \E p \in Procs :
        /\ pc[p] = "done" /\ IsPresentRun(p) /\ outcome[p] = "exit_json"
        /\ Len(Writes(p)) = 1 /\ Writes(p)[1].method = "PUT"
        /\ params[p].post_scripts = <<1, 2, 3>>

\* The object the lookup of p's invocation returned, as the server sent it.
Found(p) ==
    LET got == Lookups(p, Collection(p))[1].reply
        local == IF params[p].module = "elkarbackup_client" THEN client[p] ELSE job[p]
    IN  got[CHOOSE i \in 1..Len(got) : got[i].id = local[1].id]

\* p's invocation has ended and its lookup of the resource found nothing ...
EndedMissing(p) ==
    /\ pc[p] = "done"
    /\ Lookups(p, Collection(p)) # <<>>
    /\ IF params[p].module = "elkarbackup_client"
       THEN client[p] = None ELSE job[p] = None
\* ... or found it.
EndedFound(p) ==
    /\ pc[p] = "done"
    /\ Lookups(p, Collection(p)) # <<>>
    /\ IF params[p].module = "elkarbackup_client"
       THEN client[p] # None ELSE job[p] # None

\* The JSON sent carries every argument (and the resolved client id).
CarriesAll(body, cid, m) ==
    IF m.module = "elkarbackup_client"
    THEN /\ body.name = m.name /\ body.description = m.description
         /\ body.isActive = m.is_active
         /\ body.maxParallelJobs = m.max_parallel_jobs
         /\ body.postScripts = m.post_scripts /\ body.preScripts = m.pre_scripts
         /\ body.quota = JInt(m.quota)
         /\ body.rsyncLongArgs = m.rsync_long_args
         /\ body.rsyncShortArgs = m.rsync_short_args
         /\ body.sshArgs = m.ssh_args /\ body.url = m.url
    ELSE /\ body.name = m.name /\ body.client = cid
         /\ body.backupLocation = m.backup_location
         /\ body.description = m.description
         /\ body.exclude = m.exclude /\ body.include = m.include
         /\ body.isActive = m.is_active
         /\ body.minNotificationLevel = m.min_notification_level
         /\ body.notificationsEmail = m.notifications_email
         /\ body.notificationsTo = m.notifications_to
         /\ body.path = m.path /\ body.policy = m.policy
         /\ body.postScripts = m.post_scripts /\ body.preScripts = m.pre_scripts
         /\ body.token = m.token
         /\ body.useLocalPermissions = m.use_local_permissions

\* The Response of a write carries an id other than 0.
GaveId(r) == r.reply[1].id # None /\ r.reply[1].id[1].v # 0

\* C3. Present on a missing resource: a state=present invocation whose
\* lookup found no resource sends exactly one write, a POST to the kind's
\* collection whose JSON carries every argument (for a job, the resolved
\* client id), and when the POST is answered with an id the invocation ends
\* in exit_json with changed=true and that id.
C3_CreateWhenMissing ==
    \A p \in Procs :
        (EndedMissing(p) /\ IsPresentRun(p)) =>
            /\ Len(Writes(p)) = 1
            /\ LET w == Writes(p)[1]
               IN  /\ w.method = "POST" /\ w.path = Collection(p) /\ w.id = 0
                   /\ w.json # None
                   /\ CarriesAll(w.json[1], ResolvedId(p), params[p])
                   /\ GaveId(w) =>
                        /\ outcome[p] = "exit_json"
                        /\ result[p].changed = TRUE
                        /\ "id" \in result[p].keys
                        /\ result[p].id = w.reply[1].id[1].v
                   /\ outcome[p] = "exit_json" => GaveId(w)

\* A job was created for a client that is not the first the server lists.
C3_Witness ==
    \E p \in Procs :
        /\ EndedMissing(p) /\ IsPresentRun(p)
        /\ params[p].module = "elkarbackup_job"
        /\ outcome[p] = "exit_json" /\ result[p].id = 3
        /\ ResolvedId(p) = 2
        /\ params[p].notifications_to # <<>>

\* C4. Present on an existing resource: a state=present invocation whose
\* lookup found the resource sends a PUT if and only if a managed field
\* differs between the arguments and the object found; with no difference
\* it sends no write and exits with changed=false, with a difference it
\* sends exactly one PUT to that object and, answered with an id, exits
\* with changed=true.
C4_UpdateIffDiffers ==
    \A p \in Procs :
        (EndedFound(p) /\ IsPresentRun(p)) =>
            IF Satisfies(Found(p), ResolvedId(p), params[p])
            THEN /\ Writes(p) = <<>>
                 /\ outcome[p] = "exit_json" /\ result[p].changed = FALSE
            ELSE /\ Len(Writes(p)) = 1
                 /\ LET w == Writes(p)[1]
                    IN  /\ w.method = "PUT" /\ w.path = Collection(p)
                        /\ w.id = Found(p).id
                        /\ GaveId(w) =>
                             outcome[p] = "exit_json" /\ result[p].changed = TRUE

\* A client found with its quota as a numeral of the requested value and
\* nothing else to change, and one found with one list to change.
C4_WitnessUnchanged ==
    \E p \in Procs :
        /\ EndedFound(p) /\ IsPresentRun(p)
        /\ params[p].module = "elkarbackup_client"
        /\ Found(p).quota = JStr(20000) /\ params[p].quota = 20000
        /\ Writes(p) = <<>> /\ prev[p].outcome = ""

C4_Witness ==
    \E p \in Procs :
        /\ EndedFound(p) /\ IsPresentRun(p)
        /\ ScalarsToChange(Found(p), ResolvedId(p), params[p]) = {}
        /\ ListsToChange(Found(p), params[p]) = {"preScripts"}
        /\ outcome[p] = "exit_json" /\ result[p].changed

\* The array the server answered p's lookup of the resource with.
Listed(p) == Lookups(p, Collection(p))[1].reply

\* C5. Absent: a state=absent invocation sends no POST and no PUT; when the
\* server's answer to the name query is empty it sends no DELETE and exits
\* with changed=false; when the answer holds a resource of that name it
\* sends exactly one DELETE, to the id of a resource of that name, and exits
\* with changed=true when the DELETE is accepted.
C5_Absent ==
    \A p \in Procs :
        (pc[p] = "done" /\ IsAbsentRun(p)) =>
            LET named == {i \in 1..Len(Listed(p)) : Listed(p)[i].name = params[p].name}
            IN  /\ \A k \in 1..Len(Writes(p)) : Writes(p)[k].method = "DELETE"
                /\ Listed(p) = <<>> =>
                     /\ Writes(p) = <<>>
                     /\ outcome[p] = "exit_json" /\ result[p].changed = FALSE
                /\ EndedMissing(p) =>
                     /\ Writes(p) = <<>>
                     /\ outcome[p] = "exit_json" /\ result[p].changed = FALSE
                /\ named # {} =>
                     /\ Len(Writes(p)) = 1
                     /\ Writes(p)[1].path = Collection(p)
                     /\ \E i \in named : Writes(p)[1].id = Listed(p)[i].id
                     /\ Writes(p)[1].reply[1].ok =>
                          outcome[p] = "exit_json" /\ result[p].changed = TRUE

\* The name query answered with two clients, the second of the name asked
\* for, and that one deleted.
C5_Witness ==
    \E p \in Procs :
        /\ pc[p] = "done" /\ IsAbsentRun(p)
        /\ params[p].module = "elkarbackup_client"
        /\ Len(Listed(p)) = 2 /\ Listed(p)[1].name # params[p].name
        /\ outcome[p] = "exit_json" /\ result[p].changed
        /\ Len(clients) = 1

\* C6. Reference precondition: a state=present job invocation whose
\* client_name resolves to no client ends there in fail_json with
\* changed=false, having sent no POST, PUT or DELETE and no lookup of the job.
C6_NoClientNoWrite ==
    \A p \in Procs :
        (params[p].module = "elkarbackup_job" /\ IsPresentRun(p)
         /\ pc[p] # "start" /\ client[p] = None) =>
            /\ pc[p] = "done"
            /\ outcome[p] = "fail_json"
            /\ result[p].changed = FALSE
            /\ "id" \notin result[p].keys
            /\ Writes(p) = <<>>
            /\ Lookups(p, "jobs") = <<>>

\* The client is missing while a job of the requested name exists.
C6_Witness ==
    \E p \in Procs :
        /\ params[p].module = "elkarbackup_job" /\ IsPresentRun(p)
        /\ pc[p] = "done" /\ client[p] = None
        /\ \E i \in 1..Len(jobs) : jobs[i].name = params[p].name

\* The write of p's invocation was refused: a POST or PUT answered without
\* an id, a DELETE answered with a falsy Response.
WriteRefused(p) ==
    /\ pc[p] = "done"
    /\ Writes(p) # <<>>
    /\ LET w == Writes(p)[Len(Writes(p))]
       IN  IF w.method = "DELETE" THEN ~w.reply[1].ok ELSE w.reply[1].id = None

\* C7. Failure outcome: an invocation whose POST, PUT or DELETE was refused
\* ends in fail_json, with changed=false, an api_result and no id.
C7_RefusedWriteFails ==
    \A p \in Procs :
        WriteRefused(p) =>
            /\ outcome[p] = "fail_json"
            /\ result[p].changed = FALSE
            /\ "api_result" \in result[p].keys
            /\ result[p].api_result # NoValue
            /\ "id" \notin result[p].keys

\* A job update that the server refused.
C7_Witness ==
    \E p \in Procs :
        /\ WriteRefused(p)
        /\ params[p].module = "elkarbackup_job"
        /\ Writes(p)[1].method = "PUT"

\* C8. Error payload forwarded verbatim: after a refused POST, PUT or DELETE
\* of either module, api_result is the dict of the error body the server
\* sent, its title and detail.
C8_ErrorBodyVerbatim ==
    \A p \in Procs :
        WriteRefused(p) =>
            LET r == Writes(p)[Len(Writes(p))].reply[1]
            IN  result[p].api_result = PyDict(r.title, r.detail)

\* The list fields of a kind, a list field of an object, of the arguments.
ListFields(m) ==
    IF m.module = "elkarbackup_client" THEN {"postScripts", "preScripts"}
    ELSE {"postScripts", "preScripts", "notificationsTo"}
ListOf(o, f) ==
    CASE f = "postScripts" -> o.postScripts
      [] f = "preScripts" -> o.preScripts
      [] f = "notificationsTo" -> o.notificationsTo
ListArg(m, f) ==
    CASE f = "postScripts" -> m.post_scripts
      [] f = "preScripts" -> m.pre_scripts
      [] f = "notificationsTo" -> m.notifications_to

\* C9. Set-valued fields are compared as sets: with the resource found, a
\* list field whose elements are those of the argument is not reported
\* changed (a PUT sends it back as the server holds it, and with nothing
\* else to change there is no PUT at all); a list field whose element set
\* differs from the argument's is reported changed (one PUT, carrying the
\* argument's list).
C9_ListsComparedAsSets ==
    \A p \in Procs :
        (EndedFound(p) /\ IsPresentRun(p)) =>
            /\ \A f \in ListFields(params[p]) :
                 IF SameElements(ListOf(Found(p), f), ListArg(params[p], f))
                 THEN \A k \in 1..Len(Writes(p)) :
                        ListOf(Writes(p)[k].json[1], f) = ListOf(Found(p), f)
                 ELSE /\ Len(Writes(p)) = 1
                      /\ Writes(p)[1].method = "PUT"
                      /\ ListOf(Writes(p)[1].json[1], f) = ListArg(params[p], f)
            /\ (/\ ScalarsToChange(Found(p), ResolvedId(p), params[p]) = {}
                /\ \A f \in ListFields(params[p]) :
                     SameElements(ListOf(Found(p), f), ListArg(params[p], f)))
               => Writes(p) = <<>> /\ result[p].changed = FALSE

\* The server holds [2,1], the play asks for [1,2]: nothing is sent.
C9_Witness ==
    \E p \in Procs :
        /\ EndedFound(p) /\ IsPresentRun(p)
        /\ Found(p).postScripts = <<2, 1>> /\ params[p].post_scripts = <<1, 2>>
        /\ Writes(p) = <<>> /\ outcome[p] = "exit_json"

\* The server holds [1,2], the play asks for [1,2,3]: the list is sent.
C9_WitnessChanged ==
    \E p \in Procs :
        /\ EndedFound(p) /\ IsPresentRun(p)
        /\ Found(p).preScripts = <<1, 2>> /\ params[p].pre_scripts = <<1, 2, 3>>
        /\ Len(Writes(p)) = 1 /\ result[p].changed

\* Object o with the scalar field f set as the arguments want it.
WithField(o, f, cid, m) ==
    CASE f = "backupLocation" -> [o EXCEPT !.backupLocation = m.backup_location]
      [] f = "client" -> [o EXCEPT !.client = cid]
      [] f = "description" -> [o EXCEPT !.description = m.description]
      [] f = "exclude" -> [o EXCEPT !.exclude = m.exclude]
      [] f = "include" -> [o EXCEPT !.include = m.include]
      [] f = "isActive" -> [o EXCEPT !.isActive = m.is_active]
      [] f = "maxParallelJobs" -> [o EXCEPT !.maxParallelJobs = m.max_parallel_jobs]
      [] f = "minNotificationLevel" ->
            [o EXCEPT !.minNotificationLevel = m.min_notification_level]
      [] f = "name" -> [o EXCEPT !.name = m.name]
      [] f = "notificationsEmail" ->
            [o EXCEPT !.notificationsEmail = m.notifications_email]
      [] f = "path" -> [o EXCEPT !.path = m.path]
      [] f = "policy" -> [o EXCEPT !.policy = m.policy]
      [] f = "quota" -> [o EXCEPT !.quota = JInt(m.quota)]
      [] f = "rsyncLongArgs" -> [o EXCEPT !.rsyncLongArgs = m.rsync_long_args]
      [] f = "rsyncShortArgs" -> [o EXCEPT !.rsyncShortArgs = m.rsync_short_args]
      [] f = "sshArgs" -> [o EXCEPT !.sshArgs = m.ssh_args]
      [] f = "token" -> [o EXCEPT !.token = m.token]
      [] f = "url" -> [o EXCEPT !.url = m.url]
      [] f = "useLocalPermissions" ->
            [o EXCEPT !.useLocalPermissions = m.use_local_permissions]

\* p's invocation found the resource and exactly one scalar field, and no
\* list field, has to change.
OneScalarToChange(p) ==
    /\ EndedFound(p) /\ IsPresentRun(p)
    /\ ListsToChange(Found(p), params[p]) = {}
    /\ Cardinality(ScalarsToChange(Found(p), ResolvedId(p), params[p])) = 1
TheScalar(p) ==
    CHOOSE f \in ScalarsToChange(Found(p), ResolvedId(p), params[p]) : TRUE

\* C10 as claimed. Per-field isolation: when exactly one scalar field has to
\* change, the JSON of the PUT is the object as the server sent it with that
\* one field replaced.
C10_OnlyThatField ==
    \A p \in Procs :
        OneScalarToChange(p) =>
            /\ Len(Writes(p)) = 1
            /\ Writes(p)[1].json =
                 Some(WithField(Found(p), TheScalar(p), ResolvedId(p), params[p]))

\* A client as the module sends it back: quota through int().
QuotaAsInt(o, m) ==
    IF m.module = "elkarbackup_client" THEN [o EXCEPT !.quota = JInt(@.v)] ELSE o

\* C10 as amended. When exactly one scalar field has to change, the JSON of
\* the PUT is the object as the server sent it with that one field replaced
\* and, for a client, quota sent as the integer of the server's quota (a
\* JSON number even where the server sent a numeral in a string); id, owner
\* and every other field go back as the server sent them.
C10_OnlyThatFieldQuotaAsInt ==
    \A p \in Procs :
        OneScalarToChange(p) =>
            /\ Len(Writes(p)) = 1
            /\ Writes(p)[1].method = "PUT"
            /\ Writes(p)[1].json =
                 Some(WithField(QuotaAsInt(Found(p), params[p]), TheScalar(p),
                                ResolvedId(p), params[p]))

\* A client whose quota the server sent as a numeral, owned by user 2, with
\* only its description to change.
C10_Witness ==
    \E p \in Procs :
        /\ OneScalarToChange(p)
        /\ params[p].module = "elkarbackup_client"
        /\ TheScalar(p) = "description"
        /\ Found(p).quota = JStr(-1) /\ Found(p).owner = 2
        /\ outcome[p] = "exit_json"

\* The lookup's answer `got` for `name` on the array `listed`, as stated: the
\* one element of a one-element array; of several, an element of exactly
\* that name, or nothing when none has it; nothing of an empty array.
Disambiguated(listed, name, got) ==
    LET named == {i \in 1..Len(listed) : listed[i].name = name}
    IN  /\ Len(listed) = 1 => got = Some(listed[1])
        /\ Len(listed) > 1 =>
             IF named = {} THEN got = None
             ELSE \E i \in named : got = Some(listed[i])
        /\ Len(listed) = 0 => got = None

\* The resource p's lookup returned, before the module writes into it.
Located(p) ==
    IF params[p].module = "elkarbackup_client" THEN client[p] ELSE job[p]

\* C11. Lookup disambiguation: what get_client_by_name and get_job_by_name
\* return for the array the server answered the name query with is the single
\* element of a one-element array; of an array of several, an element whose
\* name equals the requested name, or None when none does; None of an empty
\* array.  The same holds of the client a job task resolves client_name to.
C11_LookupDisambiguation ==
    \A p \in Procs :
        /\ pc[p] = "located" =>
             Disambiguated(Listed(p), params[p].name, Located(p))
        /\ (params[p].module = "elkarbackup_job" /\ Lookups(p, "clients") # <<>>) =>
             Disambiguated(Lookups(p, "clients")[1].reply, params[p].client_name,
                           client[p])

\* The query answered with two jobs, the second of the name asked for, and
\* that one returned.
C11_Witness ==
    \E p \in Procs :
        /\ pc[p] = "located" /\ params[p].module = "elkarbackup_job"
        /\ Len(Listed(p)) = 2
        /\ Listed(p)[1].name # params[p].name
        /\ job[p] = Some(Listed(p)[2])

\* The query answered with two clients, neither of the name asked for.
C11_WitnessNone ==
    \E p \in Procs :
        /\ pc[p] = "located" /\ params[p].module = "elkarbackup_client"
        /\ Len(Listed(p)) = 2 /\ client[p] = None

\* C12. Result shape: when an invocation of either module has ended, its
\* result holds the key id only if its POST or PUT was answered with an id
\* other than 0 (and then holds that id, under exit_json), and the key
\* api_result only if it ended in fail_json; an invocation that sent no write
\* and exited, and one whose DELETE went through, hold neither key.
C12_ResultShape ==
    \A p \in Procs :
        pc[p] = "done" =>
            /\ "id" \in result[p].keys =>
                 /\ outcome[p] = "exit_json"
                 /\ Len(Writes(p)) = 1
                 /\ Writes(p)[1].method \in {"POST", "PUT"}
                 /\ GaveId(Writes(p)[1])
                 /\ result[p].id = Writes(p)[1].reply[1].id[1].v
            /\ "api_result" \in result[p].keys => outcome[p] = "fail_json"
            /\ (outcome[p] = "exit_json" /\ Writes(p) = <<>>) =>
                 result[p].keys = {"changed"}
            /\ (Writes(p) # <<>> /\ Writes(p)[1].method = "DELETE"
                /\ Writes(p)[1].reply[1].ok) =>
                 /\ outcome[p] = "exit_json"
                 /\ result[p].keys = {"changed"}

\* A client deleted: the result is changed=true and nothing else.
C12_Witness ==
    \E p \in Procs :
        /\ pc[p] = "done" /\ params[p].module = "elkarbackup_client"
        /\ Writes(p) # <<>> /\ Writes(p)[1].method = "DELETE"
        /\ Writes(p)[1].reply[1].ok
        /\ result[p].changed /\ result[p].keys = {"changed"}

\* A job updated: the result holds the id.
C12_WitnessId ==
    \E p \in Procs :
        /\ pc[p] = "done" /\ params[p].module = "elkarbackup_job"
        /\ Writes(p) # <<>> /\ Writes(p)[1].method = "PUT"
        /\ result[p].keys = {"changed", "id"}

\* p and q are two state=present invocations of the same module for the
\* same name whose lookups both returned None.
BothSawMissing(p, q) ==
    /\ p # q
    /\ IsPresentRun(p) /\ IsPresentRun(q)
    /\ params[p].module = params[q].module /\ params[p].name = params[q].name
    /\ Lookups(p, Collection(p)) # <<>> /\ Located(p) = None
    /\ Lookups(q, Collection(q)) # <<>> /\ Located(q) = None

\* The objects of p's kind that the server holds under the name p asked for.
Named(p) == {i \in 1..Len(Remote(p)) : Remote(p)[i].name = params[p].name}

\* C13. Accepted race: when the lookups of two concurrent state=present
\* invocations for the same name have both returned None, nothing holds
\* either back: each one that has ended has sent one POST for that name, and
\* when both POSTs were answered with an id the server holds two resources
\* of that name, under the two ids answered.
C13_BothCreate ==
    \A p, q \in Procs :
        BothSawMissing(p, q) =>
            /\ pc[p] = "done" =>
                 /\ Len(Writes(p)) = 1
                 /\ Writes(p)[1].method = "POST"
                 /\ Writes(p)[1].json[1].name = params[p].name
            /\ (pc[p] = "done" /\ pc[q] = "done"
                /\ GaveId(Writes(p)[1]) /\ GaveId(Writes(q)[1])) =>
                 /\ result[p].id # result[q].id
                 /\ \E i, k \in Named(p) :
                       /\ Remote(p)[i].id = result[p].id
                       /\ Remote(p)[k].id = result[q].id

\* Two clients of one name on a server that held none of that name, each
\* created by one of the two invocations.
C13_Witness ==
    \E p, q \in Procs :
        /\ BothSawMissing(p, q)
        /\ params[p].module = "elkarbackup_client"
        /\ pc[p] = "done" /\ pc[q] = "done"
        /\ outcome[p] = "exit_json" /\ outcome[q] = "exit_json"
        /\ Lookups(p, "clients")[1].reply = <<>>
        /\ Lookups(q, "clients")[1].reply = <<>>
        /\ Cardinality(Named(p)) = 2

\* The same with two jobs.
C13_WitnessJobs ==
    \E p, q \in Procs :
        /\ BothSawMissing(p, q)
        /\ params[p].module = "elkarbackup_job"
        /\ outcome[p] = "exit_json" /\ outcome[q] = "exit_json"
        /\ Cardinality(Named(p)) = 2

\* The nullable fields of a job, of the arguments.
NullableFields == {"exclude", "include", "notificationsEmail"}
NullableOf(o, f) ==
    CASE f = "exclude" -> o.exclude
      [] f = "include" -> o.include
      [] f = "notificationsEmail" -> o.notificationsEmail
NullableArg(m, f) ==
    CASE f = "exclude" -> m.exclude
      [] f = "include" -> m.include
      [] f = "notificationsEmail" -> m.notifications_email

\* Two values of a nullable field with '' and None counted as one value.
SameNullable(a, b) == a = b \/ {a, b} = {Null, ""}

\* C14. Nullable fields of a job (exclude, include, notificationsEmail): with
\* the job found, a nullable field that the server holds as '' and the
\* arguments as None (or the reverse) is not reported changed: a PUT sends it
\* back as the server holds it, and with nothing else to change there is no
\* PUT and changed=false.
C14_NullSameAsEmpty ==
    \A p \in Procs :
        (EndedFound(p) /\ IsPresentRun(p) /\ params[p].module = "elkarbackup_job") =>
            LET o == Found(p)
                m == params[p]
                others == ScalarsToChange(o, ResolvedId(p), m) \ NullableFields
            IN  /\ \A f \in NullableFields :
                     SameNullable(NullableOf(o, f), NullableArg(m, f)) =>
                        \A k \in 1..Len(Writes(p)) :
                           NullableOf(Writes(p)[k].json[1], f) = NullableOf(o, f)
                /\ (/\ others = {} /\ ListsToChange(o, m) = {}
                    /\ \A f \in NullableFields :
                         SameNullable(NullableOf(o, f), NullableArg(m, f)))
                   => Writes(p) = <<>> /\ result[p].changed = FALSE

\* C15. A job task given client_name=C touches only jobs of client C: the
\* job its PUT or DELETE goes to was, when looked up, a job of a client named C.
C15_OnlyJobsOfClient ==
    \A p \in Procs :
        (/\ params[p].module = "elkarbackup_job"
         /\ Writes(p) # <<>>
         /\ Writes(p)[1].method \in {"PUT", "DELETE"}) =>
            \E i \in 1..Len(clients) :
                /\ clients[i].id = Found(p).client
                /\ clients[i].name = params[p].client_name

\* C16. Every invocation ends in one result: when run_module is over it has
\* called exit_json or fail_json with a result holding changed, whatever the
\* server answered (an id of 0 or no id to a POST or PUT, a refused DELETE).
C16_EndsInResult ==
    \A p \in Procs :
        pc[p] = "done" =>
            /\ outcome[p] \in {"exit_json", "fail_json"}
            /\ "changed" \in result[p].keys
            /\ outcome[p] = "fail_json" => result[p].changed = FALSE

\* C17. Call ordering and count: the requests of one invocation are its GETs
\* (for a state=present job task the clients, then the jobs; otherwise the one
\* collection), then at most one POST, PUT or DELETE, which is the last
\* request and ends the invocation; no collection is read twice, no write is
\* sent without the lookups before it, and an invocation that failed has
\* ended with the request that failed.
C17_ReadsThenOneWrite ==
    \A p \in Procs :
        LET cs == calls[p]
        IN  /\ Len(Writes(p)) <= 1
            /\ \A i \in 1..Len(cs) :
                 cs[i].method # "GET" => (i = Len(cs) /\ pc[p] = "done")
            /\ \A i, k \in 1..Len(cs) :
                 (i < k /\ cs[i].method = cs[k].method) => cs[i].path # cs[k].path
            /\ \A i, k \in 1..Len(cs) :
                 (i < k /\ cs[i].method = "GET" /\ cs[k].method = "GET") =>
                    cs[i].path = "clients" /\ cs[k].path = "jobs"
            /\ Writes(p) # <<>> =>
                 /\ Lookups(p, Collection(p)) # <<>>
                 /\ Writes(p)[1].path = Collection(p)
                 /\ IsJobRun(p, "present") => Lookups(p, "clients") # <<>>
            /\ outcome[p] \in {"fail_json", "exception"} => pc[p] = "done"

\* A job task whose PUT was refused: three requests, and it has ended.
C17_Witness ==
    \E p \in Procs :
        /\ pc[p] = "done" /\ outcome[p] = "fail_json"
        /\ Len(calls[p]) = 3
        /\ calls[p][1].path = "clients" /\ calls[p][2].path = "jobs"
        /\ calls[p][3].method = "PUT" /\ ~calls[p][3].reply[1].ok

\* C18. Reference embedding: the JSON of every POST and PUT of a job task
\* holds, as client, the id of the client that the one GET of the clients by
\* client_name, the first request of the invocation, was resolved to.
C18_ClientIdEmbedded ==
    \A p \in Procs :
        (/\ params[p].module = "elkarbackup_job"
         /\ Writes(p) # <<>>
         /\ Writes(p)[1].method \in {"POST", "PUT"}) =>
            /\ Len(Lookups(p, "clients")) = 1
            /\ calls[p][1].method = "GET" /\ calls[p][1].path = "clients"
            /\ calls[p][1].name = params[p].client_name
            /\ client[p] # None
            /\ \E i \in 1..Len(calls[p][1].reply) : calls[p][1].reply[i] = client[p][1]
            /\ Writes(p)[1].json[1].client = client[p][1].id

\* A job found under another client than the one resolved: the PUT carries
\* the resolved id.
C18_Witness ==
    \E p \in Procs :
        /\ pc[p] = "done" /\ params[p].module = "elkarbackup_job"
        /\ Writes(p) # <<>> /\ Writes(p)[1].method = "PUT"
        /\ Found(p).client = 1 /\ client[p] # None /\ client[p][1].id = 2
        /\ Writes(p)[1].json[1].client = 2

\* A job created for the second client the server lists.
C18_WitnessCreate ==
    \E p \in Procs :
        /\ pc[p] = "done" /\ params[p].module = "elkarbackup_job"
        /\ Writes(p) # <<>> /\ Writes(p)[1].method = "POST"
        /\ client[p][1].id = 2 /\ Writes(p)[1].json[1].client = 2

\* p is a job task whose client_name resolved to no client and which has ended.
ResolutionFailed(p) ==
    /\ pc[p] = "done"
    /\ IsJobRun(p, "present")
    /\ Lookups(p, "clients") # <<>>
    /\ client[p] = None

\* C19 as claimed. When the resolution of client_name N fails, api_result is
\* the title "Client name not found" and the detail "Client name 'N' not
\* found", the name between single quotes.
C19_DetailQuoted ==
    \A p \in Procs :
        ResolutionFailed(p) =>
            result[p].api_result =
                PyDict("Client name not found",
                       <<"Client name ", "'">> \o params[p].client_name
                       \o <<"'", " not found">>)

\* C19 as amended. When the resolution of client_name N fails, the task ends
\* in fail_json and api_result is the title "Client name not found" and the
\* detail "Client name N not found": the name as given, without quotes.
C19_DetailUnquoted ==
    \A p \in Procs :
        ResolutionFailed(p) =>
            /\ outcome[p] = "fail_json"
            /\ "api_result" \in result[p].keys
            /\ result[p].api_result =
                 PyDict("Client name not found",
                        <<"Client name ">> \o params[p].client_name
                        \o <<" not found">>)

\* The resolution of client_name "ab" failed on a server that holds a
\* client "a".
C19_Witness ==
    \E p \in Procs :
        /\ ResolutionFailed(p)
        /\ params[p].client_name = <<"a", "b">>
        /\ \E i \in 1..Len(clients) : clients[i].name = <<"a">>

\* C20. Against a server whose name filter matches substrings, a task for
\* name N, of either module and either state, sends its PUT or DELETE only
\* to a resource whose name, as the server listed it, is exactly N.
C20_OnlyTheNamed ==
    \A p \in Procs :
        (/\ nameFilter = "partial"
         /\ Writes(p) # <<>>
         /\ Writes(p)[1].method \in {"PUT", "DELETE"}) =>
            /\ Found(p).name = params[p].name
            /\ Writes(p)[1].id = Found(p).id

\* C21. After a state=absent task for name N has ended in exit_json, with
\* nobody else writing, the server holds no resource of that kind named N,
\* and the same task run again right after it exits with changed=false;
\* whatever the server held at the start, several resources named N included.
C21_AbsentLeavesNone ==
    \A p \in Procs :
        (pc[p] = "done" /\ IsAbsentRun(p) /\ outcome[p] = "exit_json") =>
            /\ Named(p) = {}
            /\ prev[p].outcome = "exit_json" =>
                 Writes(p) = <<>> /\ result[p].changed = FALSE

\* C22. Name uniqueness is kept by tasks run one at a time: on a server that
\* started with no two clients and no two jobs of one name, after any
\* sequence of tasks of either module (any names, present or absent, exact
\* or substring name filter) no two clients and no two jobs have one name.
C22_NamesStayUnique ==
    UniqueNames(clients) /\ UniqueNames(jobs)

\* The third task of a play has created a client on a server with a
\* substring filter, after an earlier task had deleted one: two clients, of
\* two names.
C22_Witness ==
    \E p \in Procs :
        /\ pc[p] = "done" /\ reruns = 3 /\ nameFilter = "partial"
        /\ IsClientRun(p, "present") /\ outcome[p] = "exit_json"
        /\ Writes(p) # <<>> /\ Writes(p)[1].method = "POST"
        /\ result[p].id > Len(clients) /\ Len(clients) = 2

\* A task for "a" has renamed the one job the substring filter found, "ab".
C22_WitnessRenamed ==
    \E p \in Procs :
        /\ pc[p] = "done" /\ IsJobRun(p, "present") /\ outcome[p] = "exit_json"
        /\ Writes(p) # <<>> /\ Writes(p)[1].method = "PUT"
        /\ Found(p).name # params[p].name
        /\ \E i \in 1..Len(jobs) : jobs[i].name = params[p].name

====
